---- MODULE Spec2Model ----
(***************************************************************************)
(* Model of jira-tools: the local tracking store (JiraDBManager, DuckDB),  *)
(* the field blacklist configuration (config.py) and the tracker-facing    *)
(* operations of jira_integration.py.                                      *)
(*                                                                         *)
(* SpecStore is the state machine of the issue writes of the tracking      *)
(* store, SpecPatch that of update_issue on stored issues, SpecTracking    *)
(* that of all the operations of the store.  Spec is the                   *)
(* state machine of the tracker-facing operations: every call draws the    *)
(* tracker's answers from bounded sets and leaves its reply, with the      *)
(* tracker calls it made, in the variable reply.                           *)
(***************************************************************************)
EXTENDS Integers, Sequences, FiniteSets, TLC

VARIABLES
    issues,        \* table issues: a set of rows
    transitions,   \* table transitions: rows in insertion order
    comments,      \* table comments: a set of rows
    now,           \* CURRENT_TIMESTAMP of the store's clock
    dbCall,        \* the last JiraDBManager call and how it ended
    jira_client,   \* the global jira_client of jira_integration.py
    tempo_client,  \* the global tempo_client of jira_integration.py
    reply          \* the reply of the tracker-facing call in flight

vars == <<issues, transitions, comments, now, dbCall, jira_client, tempo_client, reply>>
storeVars == <<issues, transitions, comments, now, dbCall>>
toolVars == <<jira_client, tempo_client, reply>>

(***************************************************************************)
(* Bounds of the model.                                                    *)
(***************************************************************************)
MaxClock == 1
MaxListLen == 2
MaxSubtasks == 1
MaxTransitions == 2
MaxComments == 2
MaxChildren == 1

(***************************************************************************)
(* Generic helpers.                                                        *)
(***************************************************************************)
Range(s) == {s[i] : i \in DOMAIN s}

SeqsUpTo(S, n) == UNION {[1..k -> S] : k \in 0..n}

\* SQL NULL / Python None in a VARCHAR column or a string argument.
NULL == "NULL"

\* A nullable BIGINT is a set of at most one integer; the empty set is NULL.
NullId == {}

(***************************************************************************)
(* Python strings: the str methods the code uses, on TLA+ strings.         *)
(***************************************************************************)
CharAt(s, i) == SubSeq(s, i, i)

\* str.startswith
StartsWith(s, prefix) ==
    Len(s) >= Len(prefix) /\ SubSeq(s, 1, Len(prefix)) = prefix

\* sep in s, for a one-character sep
Contains(s, sep) == \E i \in 1..Len(s) : CharAt(s, i) = sep

\* str.split(sep), for a one-character sep
RECURSIVE SplitFrom(_, _, _, _)
SplitFrom(s, sep, start, i) ==
    IF i > Len(s) THEN <<SubSeq(s, start, Len(s))>>
    ELSE IF CharAt(s, i) = sep
         THEN <<SubSeq(s, start, i - 1)>> \o SplitFrom(s, sep, i + 1, i + 1)
         ELSE SplitFrom(s, sep, start, i + 1)

Split(s, sep) == SplitFrom(s, sep, 1, 1)

Whitespace == {" ", "\t", "\n"}

\* sub in s
Occurs(sub, s) ==
    \E i \in 1..(Len(s) - Len(sub) + 1) : SubSeq(s, i, i + Len(sub) - 1) = sub

\* sep.join(parts)
RECURSIVE Join(_, _)
Join(parts, sep) ==
    IF parts = <<>> THEN ""
    ELSE IF Len(parts) = 1 THEN parts[1]
    ELSE parts[1] \o sep \o Join(Tail(parts), sep)

\* str.strip()
Strip(s) ==
    LET inked == {i \in 1..Len(s) : CharAt(s, i) \notin Whitespace}
    IN  IF inked = {} THEN ""
        ELSE LET first == CHOOSE i \in inked : \A j \in inked : i <= j
                 last == CHOOSE i \in inked : \A j \in inked : i >= j
             IN  SubSeq(s, first, last)

UpperCase == "ABCDEFGHIJKLMNOPQRSTUVWXYZ"
LowerCase == "abcdefghijklmnopqrstuvwxyz"

LowerChar(c) ==
    IF \E i \in 1..Len(UpperCase) : CharAt(UpperCase, i) = c
    THEN CharAt(LowerCase, CHOOSE i \in 1..Len(UpperCase) : CharAt(UpperCase, i) = c)
    ELSE c

\* str.lower()
RECURSIVE Lower(_)
Lower(s) == IF s = "" THEN "" ELSE LowerChar(CharAt(s, 1)) \o Lower(SubSeq(s, 2, Len(s)))

(***************************************************************************)
(* JSON values as the tracker returns them (Python None, str, number,      *)
(* dict, list), each tagged with its type.                                 *)
(***************************************************************************)
JNull == [t |-> "null"]
JStr(v) == [t |-> "str", s |-> v]
JNum(v) == [t |-> "num", n |-> v]
JObj(members) == [t |-> "obj", m |-> members]
JList(elems) == [t |-> "list", e |-> elems]

\* Python truthiness: `if v:`
Truthy(v) ==
    /\ v # JNull
    /\ v # JStr("")
    /\ v # JNum(0)
    /\ ~(v.t = "obj" /\ DOMAIN v.m = {})
    /\ ~(v.t = "list" /\ v.e = <<>>)

\* dict.get(key, default)
Get(members, key, default) == IF key \in DOMAIN members THEN members[key] ELSE default

(***************************************************************************)
(* Field blacklists: src/config.py                                         *)
(***************************************************************************)
FIELD_BLACKLIST ==
    [t \in {"Subtarefa"} |->
        <<"customfield_10073", "customfield_10175", "customfield_10274",
          "customfield_10176", "customfield_10286", "customfield_10000",
          "customfield_10155", "customfield_10002", "customfield_10019",
          "customfield_11265", "customfield_10136">>]

GLOBAL_BLACKLIST ==
    <<"rankBeforeIssue", "rankAfterIssue", "io.tempo.jira__account",
      "customfield_10014", "customfield_10020">>

\* Mutant of get_blacklisted_fields: the global list is only the fallback of
\* a type without a list of its own.
get_blacklisted_fields_or_global(issue_type) ==
    IF issue_type \in DOMAIN FIELD_BLACKLIST
    THEN FIELD_BLACKLIST[issue_type]
    ELSE GLOBAL_BLACKLIST

\* get_blacklisted_fields: the list of the type, then the global list.
get_blacklisted_fields(issue_type) ==
    LET type_specific_blacklist == Get(FIELD_BLACKLIST, issue_type, <<>>)
    IN  type_specific_blacklist \o GLOBAL_BLACKLIST

(***************************************************************************)
(* The tracker-facing operations: src/src/core/jira/jira_integration.py    *)
(*                                                                         *)
(* A reply records the operation, its arguments, what the tracker          *)
(* answered (upstream), whether the call returned or raised, the value     *)
(* returned or the error raised, and the tracker calls made, in order.     *)
(***************************************************************************)
EmptyDict == <<>>

\* No call is in flight.
NoReply == [op |-> "none"]

\* The reply of a call whose body did not run.
NoUpstream == [called |-> FALSE]

Returned(op, args, upstream, value, calls) ==
    [op |-> op, args |-> args, upstream |-> upstream,
     outcome |-> "returned", value |-> value, calls |-> calls]

Raised(op, args, upstream, error, calls) ==
    [op |-> op, args |-> args, upstream |-> upstream,
     outcome |-> "raised", value |-> error, calls |-> calls]

Call(api, args) == [api |-> api, args |-> args]

\* jira_client.issue(key) for a missing issue raises JIRAError (404).
NotFound == [found |-> FALSE]
NotFoundError == "JIRAError: Issue does not exist"

\* A global client is a set of at most one client object: the empty set is
\* None, and the objects are numbered in the order of their construction.
NoClient == {}

\* The object a constructor call (JIRA(...), client_v4.Tempo(...)) assigns to
\* the global: a new one, distinct from the one the global holds.
Constructed(client) ==
    IF client = NoClient THEN {1} ELSE {n + 1 : n \in client}

\* Mutant of with_jira_client: the wrapper initialises the client at every
\* call.
with_jira_client_always_init(op, args, initOk, bodyReply) ==
    IF ~initOk
    THEN /\ jira_client' = jira_client
         /\ reply' = Raised(op, args, NoUpstream, "init_jira_client failed", <<>>)
    ELSE /\ jira_client' = Constructed(jira_client)
         /\ reply' = bodyReply

\* with_jira_client: the wrapper initialises the global client when it is
\* None (init_jira_client may raise, and then the body does not run) and
\* then runs the decorated function.
with_jira_client(op, args, initOk, bodyReply) ==
    IF jira_client = NoClient /\ ~initOk
    THEN /\ jira_client' = jira_client
         /\ reply' = Raised(op, args, NoUpstream, "init_jira_client failed", <<>>)
    ELSE /\ jira_client' = IF jira_client = NoClient
                           THEN Constructed(jira_client) ELSE jira_client
         /\ reply' = bodyReply

\* The `if item_value:` block of the list branch, for one dict item.
ProcessedItem(item) ==
    LET item_value == Get(item.m, "value", Get(item.m, "name", JNull))
    IN  IF Truthy(item_value)
        THEN IF "id" \in DOMAIN item.m
             THEN <<JObj([id |-> item.m["id"], value |-> item_value])>>
             ELSE <<item_value>>
        ELSE <<>>

\* processed_values of the list branch.
RECURSIVE ProcessedValues(_)
ProcessedValues(field_value) ==
    IF field_value = <<>> THEN <<>>
    ELSE LET item == Head(field_value)
         IN  (IF item.t = "obj" THEN ProcessedItem(item) ELSE <<item>>)
             \o ProcessedValues(Tail(field_value))

\* Mutant of ActualValueOfDict: the id of the dict is not kept.
ActualValueOfDictNoId(field_value) ==
    LET m == field_value.m
    IN  IF "value" \in DOMAIN m THEN m["value"]
        ELSE IF "name" \in DOMAIN m THEN m["name"]
        ELSE field_value

\* actual_value of a dict field value.
ActualValueOfDict(field_value) ==
    LET m == field_value.m
        extracted == IF "value" \in DOMAIN m THEN m["value"]
                     ELSE IF "name" \in DOMAIN m THEN m["name"]
                     ELSE field_value
    IN  IF "id" \in DOMAIN m
        THEN JObj([id |-> m["id"], value |-> extracted])
        ELSE extracted

\* actual_value: the value extracted from the different field types.
ActualValue(field_value) ==
    IF field_value.t = "obj" THEN ActualValueOfDict(field_value)
    ELSE IF field_value.t = "list"
    THEN LET processed_values == ProcessedValues(field_value.e)
         IN  IF processed_values # <<>> THEN JList(processed_values) ELSE field_value
    ELSE field_value

\* Mutant of IsFilledCustomField: null values are not skipped.
IsCustomFieldEvenNull(field_name, field_value) ==
    StartsWith(field_name, "customfield_")

\* The guard of the custom-field loop.
IsFilledCustomField(field_name, field_value) ==
    StartsWith(field_name, "customfield_") /\ field_value # JNull

\* Mutant of CustomFieldEntry: a field without a descriptor name gets no name.
CustomFieldEntryNoFallback(field_name, field_value, field_meta) ==
    LET field_info == Get(field_meta, field_name, EmptyDict)
    IN  [id |-> IF Contains(field_name, "_")
                THEN Split(field_name, "_")[2] ELSE field_name,
         key |-> field_name,
         name |-> Get(field_info, "name", ""),
         value |-> ActualValue(field_value)]

\* The entry custom_fields[field_name].
CustomFieldEntry(field_name, field_value, field_meta) ==
    LET field_info == Get(field_meta, field_name, EmptyDict)
    IN  [id |-> IF Contains(field_name, "_")
                THEN Split(field_name, "_")[2] ELSE field_name,
         key |-> field_name,
         name |-> Get(field_info, "name", field_name),
         value |-> ActualValue(field_value)]

\* custom_fields, built by the loop over issue.raw['fields'].
CustomFields(raw_fields, field_meta) ==
    [field_name \in {f \in DOMAIN raw_fields : IsFilledCustomField(f, raw_fields[f])}
        |-> CustomFieldEntry(field_name, raw_fields[field_name], field_meta)]

\* field_meta: of the createmeta answer when the call succeeds and names a
\* project and an issue type, else the empty dict.
FieldMeta(meta) ==
    IF meta.raises THEN EmptyDict
    ELSE IF meta.projects # <<>> /\ meta.projects[1].issuetypes # <<>>
    THEN Get(meta.projects[1].issuetypes[1], "fields", EmptyDict)
    ELSE EmptyDict

SemDescricao == "Sem Descricao"

\* Mutant of Description: a description that is kept is trimmed.
DescriptionTrimmed(description) ==
    IF description = NULL \/ description = "" \/ Strip(description) = ""
    THEN SemDescricao
    ELSE Strip(description)

\* The description rule, for the issue and for each subtask.
Description(description) ==
    IF description = NULL \/ description = "" \/ Strip(description) = ""
    THEN SemDescricao
    ELSE description

\* parent_info
ParentInfo(parent) ==
    IF parent.present
    THEN LET parent_summary ==
                 Get(Get(parent.raw, "fields", EmptyDict), "summary", "")
         IN  parent.key \o " - " \o parent_summary
    ELSE "No Parent"

\* getattr(x, attr, default) on a value that may be None
OrDefault(v, default) == IF v = NULL THEN default ELSE v

\* One entry of subtasks, from the full subtask fetched by key.
SubtaskEntry(key, full_subtask) ==
    [key |-> key,
     title |-> full_subtask.summary,
     description |-> Description(full_subtask.description),
     status |-> full_subtask.status,
     issue_type |-> full_subtask.issuetype,
     assignee |-> OrDefault(full_subtask.assignee, "Unassigned"),
     priority |-> OrDefault(full_subtask.priority, "No Priority")]

\* The dictionary get_issue_details_impl returns.
IssueDetails(issue, subs, meta) ==
    LET subtasks == [i \in 1..Len(issue.subtasks) |->
                        SubtaskEntry(issue.subtasks[i], subs[issue.subtasks[i]])]
    IN  [key |-> issue.key,
         title |-> issue.summary,
         description |-> Description(issue.description),
         issue_type |-> issue.issuetype,
         status |-> issue.status,
         project |-> issue.project,
         parent |-> ParentInfo(issue.parent),
         assignee |-> OrDefault(issue.assignee, "Unassigned"),
         priority |-> OrDefault(issue.priority, "No Priority"),
         created |-> issue.created,
         updated |-> issue.updated,
         subtasks |-> subtasks,
         subtasks_count |-> Len(subtasks),
         custom_fields |-> CustomFields(issue.raw, FieldMeta(meta))]

\* The body of get_issue_details_impl: the issue fetch and every subtask
\* fetch raise when the tracker does not know the key; the createmeta
\* failure is caught.
GetIssueDetailsReply(issue_key, issue, subs, meta) ==
    LET op == "get_issue_details_impl"
        args == [issue_key |-> issue_key]
        upstream == [issue |-> issue, subtasks |-> subs, meta |-> meta]
        issueCall == Call("issue", [key |-> issue_key, expand |-> "subtasks,issuelinks"])
    IN  IF ~issue.found
        THEN Raised(op, args, upstream, NotFoundError, <<issueCall>>)
        ELSE LET missing == {i \in 1..Len(issue.subtasks) :
                                ~subs[issue.subtasks[i]].found}
                 fetched == IF missing = {} THEN Len(issue.subtasks)
                            ELSE CHOOSE i \in missing : \A j \in missing : i <= j
                 subCalls == [i \in 1..fetched |->
                                 Call("issue", [key |-> issue.subtasks[i]])]
                 metaCall == Call("createmeta",
                                  [projectKeys |-> issue.project,
                                   issuetypeNames |-> issue.issuetype,
                                   expand |-> "projects.issuetypes.fields"])
             IN  IF missing # {}
                 THEN Raised(op, args, upstream, NotFoundError, <<issueCall>> \o subCalls)
                 ELSE Returned(op, args, upstream, IssueDetails(issue, subs, meta),
                               <<issueCall>> \o subCalls \o <<metaCall>>)

get_issue_details_impl(issue_key, issue, subs, meta, initOk) ==
    /\ reply = NoReply
    /\ UNCHANGED tempo_client
    /\ with_jira_client("get_issue_details_impl", [issue_key |-> issue_key], initOk,
                        GetIssueDetailsReply(issue_key, issue, subs, meta))

\* Mutant of FindTransition: the loop does not break at the first match.
FindTransitionNoBreak(listed, transition_name) ==
    LET matching == {i \in DOMAIN listed :
                        Lower(listed[i]["name"]) = Lower(transition_name)}
    IN  IF matching = {} THEN 0
        ELSE CHOOSE i \in matching : \A j \in matching : j <= i

\* The for loop of transition_jira_issue_impl with its break: the index of
\* the first transition whose name matches case-insensitively, 0 for none.
FindTransition(listed, transition_name) ==
    LET matching == {i \in DOMAIN listed :
                        Lower(listed[i]["name"]) = Lower(transition_name)}
    IN  IF matching = {} THEN 0
        ELSE CHOOSE i \in matching : \A j \in matching : i <= j

\* The body of transition_jira_issue_impl.  The tracker answers the listing
\* with the transitions of the issue (or not-found) and accepts or rejects
\* the transition it is asked to execute; neither failure is caught.
TransitionIssueReply(issue_key, transition_name, answer) ==
    LET op == "transition_jira_issue_impl"
        args == [issue_key |-> issue_key, transition_name |-> transition_name]
        upstream == [issue |-> answer]
        listCall == Call("transitions", [key |-> issue_key])
    IN  IF ~answer.found
        THEN Raised(op, args, upstream, NotFoundError, <<listCall>>)
        ELSE LET listed == answer.transitions
                 found == FindTransition(listed, transition_name)
                 available_transitions ==
                     Join([i \in DOMAIN listed |-> listed[i]["name"]], ", ")
             IN  IF found = 0
                 THEN Raised(op, args, upstream,
                             "ValueError: Transition '" \o transition_name
                                 \o "' not found. Available transitions: "
                                 \o available_transitions,
                             <<listCall>>)
                 ELSE LET execCall == Call("transition_issue",
                                           [key |-> issue_key,
                                            transition |-> listed[found]["id"]])
                      IN  IF answer.accepts
                          THEN Returned(op, args, upstream,
                                        "Successfully transitioned " \o issue_key
                                            \o " using transition '" \o transition_name \o "'",
                                        <<listCall, execCall>>)
                          ELSE Raised(op, args, upstream, "JIRAError: transition rejected",
                                      <<listCall, execCall>>)

transition_jira_issue_impl(issue_key, transition_name, answer, initOk) ==
    /\ reply = NoReply
    /\ UNCHANGED tempo_client
    /\ with_jira_client("transition_jira_issue_impl",
                        [issue_key |-> issue_key, transition_name |-> transition_name],
                        initOk, TransitionIssueReply(issue_key, transition_name, answer))

\* required_fields[field_id] of get_transitions_with_fields_impl.
RequiredField(field_id, field_data) ==
    [name |-> Get(field_data, "name", field_id),
     type |-> Get(Get(field_data, "schema", EmptyDict), "type", "string"),
     allowedValues |-> Get(field_data, "allowedValues", <<>>),
     description |-> Get(field_data, "description", "")]

\* result[transition['name']]: a later transition of the same name replaces
\* an earlier one.
TransitionsWithFields(listed) ==
    [name \in {listed[i]["name"] : i \in DOMAIN listed} |->
        LET last == CHOOSE i \in DOMAIN listed :
                        /\ listed[i]["name"] = name
                        /\ \A j \in DOMAIN listed :
                              listed[j]["name"] = name => j <= i
            transition == listed[last]
            fields == Get(transition, "fields", EmptyDict)
        IN  [id |-> transition["id"],
             required_fields |->
                 [field_id \in DOMAIN fields |-> RequiredField(field_id, fields[field_id])]]]

\* The body of get_transitions_with_fields_impl.
GetTransitionsReply(issue_key, answer) ==
    LET op == "get_transitions_with_fields_impl"
        args == [issue_key |-> issue_key]
        upstream == [issue |-> answer]
        calls == <<Call("transitions", [key |-> issue_key, expand |-> "transitions.fields"])>>
    IN  IF ~answer.found
        THEN Raised(op, args, upstream, NotFoundError, calls)
        ELSE Returned(op, args, upstream, TransitionsWithFields(answer.transitions), calls)

get_transitions_with_fields_impl(issue_key, answer, initOk) ==
    /\ reply = NoReply
    /\ UNCHANGED tempo_client
    /\ with_jira_client("get_transitions_with_fields_impl", [issue_key |-> issue_key],
                        initOk, GetTransitionsReply(issue_key, answer))

\* comments[-n:] if n > 0 else comments
LastComments(issue_comments, n) ==
    IF n > 0
    THEN SubSeq(issue_comments,
                IF Len(issue_comments) > n THEN Len(issue_comments) - n + 1 ELSE 1,
                Len(issue_comments))
    ELSE issue_comments

\* The body of get_last_comments_impl: every exception is caught and
\* returned as a failure message.
GetLastCommentsReply(issue_key, n, answer) ==
    LET op == "get_last_comments_impl"
        args == [issue_key |-> issue_key, n |-> n]
        upstream == [issue |-> answer]
        calls == <<Call("issue", [key |-> issue_key])>>
    IN  IF ~answer.found
        THEN Returned(op, args, upstream, "Failed to get comments: " \o NotFoundError, calls)
        ELSE LET last_comments == LastComments(answer.comments, n)
             IN  Returned(op, args, upstream,
                          [i \in DOMAIN last_comments |->
                              [author |-> last_comments[i].author,
                               created |-> last_comments[i].created,
                               body |-> last_comments[i].body]],
                          calls)

get_last_comments_impl(issue_key, n, answer, initOk) ==
    /\ reply = NoReply
    /\ UNCHANGED tempo_client
    /\ with_jira_client("get_last_comments_impl", [issue_key |-> issue_key, n |-> n],
                        initOk, GetLastCommentsReply(issue_key, n, answer))

\* The body of add_comment_to_issue_impl: every exception is caught and
\* returned as a failure message.
AddCommentReply(issue_key, comment_markdown, answer) ==
    LET op == "add_comment_to_issue_impl"
        args == [issue_key |-> issue_key, comment_markdown |-> comment_markdown]
        upstream == [issue |-> answer]
        calls == <<Call("add_comment", [key |-> issue_key, body |-> comment_markdown])>>
    IN  IF ~answer.found
        THEN Returned(op, args, upstream, "Failed to add comment: " \o NotFoundError, calls)
        ELSE Returned(op, args, upstream, "Comment added to " \o issue_key, calls)

add_comment_to_issue_impl(issue_key, comment_markdown, answer, initOk) ==
    /\ reply = NoReply
    /\ UNCHANGED tempo_client
    /\ with_jira_client("add_comment_to_issue_impl",
                        [issue_key |-> issue_key, comment_markdown |-> comment_markdown],
                        initOk, AddCommentReply(issue_key, comment_markdown, answer))

\* One entry of child_issues.
ChildEntry(child) ==
    [key |-> child.key, title |-> child.summary, status |-> child.status,
     issue_type |-> child.issuetype,
     assignee |-> OrDefault(child.assignee, "Unassigned"),
     priority |-> OrDefault(child.priority, "No Priority"),
     created |-> child.created, updated |-> child.updated]

\* Mutant of GetChildIssuesReply: the failed parent lookup is not caught.
GetChildIssuesReplyUncaught(parent_key, answer, children) ==
    LET op == "get_child_issues_by_parent_impl"
        args == [parent_key |-> parent_key]
        upstream == [issue |-> answer, children |-> children]
        parentCall == Call("issue", [key |-> parent_key])
        searchCall == Call("search_issues",
                           [jql |-> "parent = " \o parent_key \o " ORDER BY created DESC",
                            maxResults |-> 1000])
    IN  IF ~answer.found
        THEN Raised(op, args, upstream, NotFoundError, <<parentCall>>)
        ELSE LET child_issues == [i \in DOMAIN children |-> ChildEntry(children[i])]
             IN  Returned(op, args, upstream,
                          [parent_info |-> [key |-> answer.key, title |-> answer.summary,
                                            type |-> answer.issuetype,
                                            status |-> answer.status],
                           children |-> child_issues,
                           total_children |-> Len(child_issues)],
                          <<parentCall, searchCall>>)

\* The body of get_child_issues_by_parent_impl: every exception is caught
\* and returned as a dictionary with an error member and no children.
GetChildIssuesReply(parent_key, answer, children) ==
    LET op == "get_child_issues_by_parent_impl"
        args == [parent_key |-> parent_key]
        upstream == [issue |-> answer, children |-> children]
        parentCall == Call("issue", [key |-> parent_key])
        searchCall == Call("search_issues",
                           [jql |-> "parent = " \o parent_key \o " ORDER BY created DESC",
                            maxResults |-> 1000])
    IN  IF ~answer.found
        THEN Returned(op, args, upstream,
                      [error |-> "Failed to get child issues: " \o NotFoundError,
                       parent_key |-> parent_key, children |-> <<>>, total_children |-> 0],
                      <<parentCall>>)
        ELSE LET child_issues == [i \in DOMAIN children |-> ChildEntry(children[i])]
             IN  Returned(op, args, upstream,
                          [parent_info |-> [key |-> answer.key, title |-> answer.summary,
                                            type |-> answer.issuetype,
                                            status |-> answer.status],
                           children |-> child_issues,
                           total_children |-> Len(child_issues)],
                          <<parentCall, searchCall>>)

get_child_issues_by_parent_impl(parent_key, answer, children, initOk) ==
    /\ reply = NoReply
    /\ UNCHANGED tempo_client
    /\ with_jira_client("get_child_issues_by_parent_impl", [parent_key |-> parent_key],
                        initOk, GetChildIssuesReply(parent_key, answer, children))

\* json.dumps of a string (the strings of the model need no escaping).
JsonString(str) == "\"" \o str \o "\""

\* json.dumps of a dict given as its members in insertion order, each a
\* pair <<name, JSON text of the value>>, and of a list of JSON texts.
\* (indent=2 only adds line breaks and spaces between the tokens.)
JsonObject(members) ==
    "{" \o Join([n \in DOMAIN members |->
                    JsonString(members[n][1]) \o ": " \o members[n][2]], ", ") \o "}"

JsonArray(texts) == "[" \o Join(texts, ", ") \o "]"

\* valor_permitido: the id, value, key and name members of an allowed value,
\* in that order, each only when the allowed value has it.
RECURSIVE AllowedValueMembers(_, _)
AllowedValueMembers(allowed_value, names) ==
    IF names = <<>> THEN <<>>
    ELSE (IF Head(names) \in DOMAIN allowed_value
          THEN <<<<Head(names), JsonString(allowed_value[Head(names)])>>>>
          ELSE <<>>)
         \o AllowedValueMembers(allowed_value, Tail(names))

\* item: the descriptor built for the schema entry of one field.
SchemaItem(entry) ==
    LET allowed == Get(entry, "allowedValues", <<>>)
        valores_permitidos ==
            [n \in DOMAIN allowed |->
                JsonObject(AllowedValueMembers(allowed[n], <<"id", "value", "key", "name">>))]
    IN  JsonObject(<<<<"field", JsonString(entry.field)>>,
                     <<"name", JsonString(entry.name)>>,
                     <<"schema", JsonString(entry.schema.type)>>,
                     <<"allowedValues", JsonArray(valores_permitidos)>>>>)

campos_ignorar == {"fixVersions", "attachment"}

\* `if field is not None and field == campo:` -- the item is appended.
KeepsItem(field, campo) == field # NULL /\ field = campo

\* campos: the loop over the fields of the schema, in their order.
RECURSIVE Campos(_, _)
Campos(entries, field) ==
    IF entries = <<>> THEN <<>>
    ELSE (IF Head(entries).field \notin campos_ignorar /\ KeepsItem(field, Head(entries).field)
          THEN <<SchemaItem(Head(entries))>>
          ELSE <<>>)
         \o Campos(Tail(entries), field)

\* The arguments of the createmeta call.
SchemaRequest(project_key, issue_type_name) ==
    [projectKeys |-> "ARQPERF", issuetypeNames |-> "Tarefa",
     expand |-> "projects.issuetypes.fields"]

\* The body of get_issue_type_custom_fields_by_project_impl.  The tracker
\* answers the createmeta call with the schema (meta), or the call raises;
\* an answer without a project or an issue type raises IndexError at [0].
GetIssueTypeFieldsReply(project_key, issue_type_name, field, meta) ==
    LET op == "get_issue_type_custom_fields_by_project_impl"
        args == [project_key |-> project_key, issue_type_name |-> issue_type_name,
                 field |-> field]
        upstream == [meta |-> meta]
        calls == <<Call("createmeta", SchemaRequest(project_key, issue_type_name))>>
    IN  IF meta.raises
        THEN Raised(op, args, upstream, "JIRAError: createmeta failed", calls)
        ELSE IF meta.projects = <<>> \/ meta.projects[1].issuetypes = <<>>
        THEN Raised(op, args, upstream, "IndexError: list index out of range", calls)
        ELSE Returned(op, args, upstream,
                      JsonArray(Campos(meta.projects[1].issuetypes[1].fields, field)),
                      calls)

get_issue_type_custom_fields_by_project_impl(project_key, issue_type_name, field, meta, initOk) ==
    /\ reply = NoReply
    /\ UNCHANGED tempo_client
    /\ with_jira_client("get_issue_type_custom_fields_by_project_impl",
                        [project_key |-> project_key, issue_type_name |-> issue_type_name,
                         field |-> field],
                        initOk,
                        GetIssueTypeFieldsReply(project_key, issue_type_name, field, meta))

\* with_tempo_client: the wrapper initialises the global Tempo client when
\* it is None (init_tempo_client raises ValueError when TEMPO_API_KEY is not
\* set, and then the body does not run) and then runs the decorated function.
TempoInitError == "ValueError: TEMPO_API_KEY environment variable is not set."

with_tempo_client(op, args, tempoOk, bodyReply) ==
    IF tempo_client = NoClient /\ ~tempoOk
    THEN /\ tempo_client' = tempo_client
         /\ reply' = Raised(op, args, NoUpstream, TempoInitError, <<>>)
    ELSE /\ tempo_client' = IF tempo_client = NoClient
                            THEN Constructed(tempo_client) ELSE tempo_client
         /\ reply' = bodyReply

\* datetime.strftime("%Y-%m-%d") of a day of the clock.
Dates == <<"2025-09-06", "2025-09-07", "2025-09-08", "2025-09-09">>
strftime(day) == Dates[day + 1]

\* The day the module is loaded, when the def statement of
\* register_worklog_tempo evaluates the default of task_date.
LoadDay == 0
DefaultTaskDate == strftime(LoadDay)

\* A keyword argument the caller does not pass.
Omitted == "OMITTED"

\* Mutant of WorklogFailure: the failure of create_worklog is not caught.
WorklogFailureUncaught(op, args, upstream, error, calls) ==
    Raised(op, args, upstream, error, calls)

\* except Exception as e: return f"Failed to create worklog: {str(e)}"
WorklogFailure(op, args, upstream, error, calls) ==
    Returned(op, args, upstream, "Failed to create worklog: " \o error, calls)

\* The body of register_worklog_tempo, run with task_date.  The tracker
\* answers the user search and the issue lookup, Tempo the worklog creation;
\* only the worklog creation is inside the try block.
RegisterWorklogReply(op, args, task_date, upstream) ==
    LET searchCall == Call("search_users", [query |-> args.assignee_email])
        issueCall == Call("issue", [key |-> args.issue_key])
    IN  IF upstream.users.raises
        THEN Raised(op, args, upstream, "JIRAError: user search failed", <<searchCall>>)
        ELSE IF upstream.users.found = <<>>
        THEN Raised(op, args, upstream,
                    "ValueError: No user found with email: " \o args.assignee_email,
                    <<searchCall>>)
        ELSE IF ~upstream.issue.found
        THEN Raised(op, args, upstream, NotFoundError, <<searchCall, issueCall>>)
        ELSE LET worklogCall ==
                     Call("create_worklog",
                          [issueId |-> upstream.issue.id,
                           timeSpentSeconds |-> args.time_in_seconds,
                           dateFrom |-> task_date,
                           startTime |-> args.start_time,
                           description |-> args.description,
                           accountId |-> upstream.users.found[1].accountId,
                           attributes |-> <<[key |-> "_Account_",
                                             value |-> args.account_key]>>])
                 calls == <<searchCall, issueCall, worklogCall>>
             IN  IF upstream.tempo.raises
                 THEN WorklogFailure(op, args, upstream, "HTTPError: 429 Too Many Requests",
                                     calls)
                 ELSE Returned(op, args, upstream, "Worklog created successfully!", calls)

\* A call decorated with with_jira_client and with_tempo_client, in that
\* order: the tracker client is initialised first, then the Tempo client.
with_both_clients(op, args, jiraOk, tempoOk, bodyReply) ==
    IF jira_client = NoClient /\ ~jiraOk
    THEN /\ jira_client' = jira_client
         /\ tempo_client' = tempo_client
         /\ reply' = Raised(op, args, NoUpstream, "init_jira_client failed", <<>>)
    ELSE /\ jira_client' = IF jira_client = NoClient
                           THEN Constructed(jira_client) ELSE jira_client
         /\ with_tempo_client(op, args, tempoOk, bodyReply)

WorklogArgs(issue_key, task_date) ==
    [issue_key |-> issue_key, assignee_email |-> "user@company.com",
     start_time |-> "09:00:00", time_in_seconds |-> 3600, account_key |-> "PROJ-DEV",
     description |-> "Atividade da tarefa", task_date |-> task_date]

\* register_worklog_tempo called directly: an omitted task_date takes the
\* default evaluated when the module was loaded.
register_worklog_tempo(issue_key, task_date, upstream, jiraOk, tempoOk) ==
    /\ reply = NoReply
    /\ LET args == WorklogArgs(issue_key, task_date)
       IN  with_both_clients("register_worklog_tempo", args, jiraOk, tempoOk,
               RegisterWorklogReply("register_worklog_tempo", args,
                   IF task_date = Omitted THEN DefaultTaskDate ELSE task_date,
                   upstream))

\* The tool log_time_spent_in_issue (src/src/mcp/server.py): its own default
\* of task_date is None, and it passes task_date on by keyword.
log_time_spent_in_issue(issue_key, task_date, upstream, jiraOk, tempoOk) ==
    /\ reply = NoReply
    /\ LET args == WorklogArgs(issue_key, task_date)
       IN  with_both_clients("log_time_spent_in_issue", args, jiraOk, tempoOk,
               RegisterWorklogReply("log_time_spent_in_issue", args,
                   IF task_date = Omitted THEN NULL ELSE task_date,
                   upstream))

\* data: one line per account whose status is OPEN.
RECURSIVE AccountLines(_)
AccountLines(accounts) ==
    IF accounts = <<>> THEN ""
    ELSE (IF Head(accounts).status = "OPEN"
          THEN "- Account Key: " \o Head(accounts).key \o ", Account Name: "
                   \o Head(accounts).name \o "\n"
          ELSE "")
         \o AccountLines(Tail(accounts))

\* The body of get_accounts_for_tempo: every exception is caught and
\* returned as a failure message.
GetAccountsReply(answer) ==
    LET op == "get_accounts_for_tempo"
        upstream == [accounts |-> answer]
        calls == <<Call("get_accounts", EmptyDict)>>
    IN  IF answer.raises
        THEN Returned(op, EmptyDict, upstream,
                      "Error fetching accounts: HTTPError: 401 Unauthorized", calls)
        ELSE LET data == AccountLines(answer.accounts)
             IN  Returned(op, EmptyDict, upstream,
                          IF data # "" THEN data ELSE "No active accounts found", calls)

get_accounts_for_tempo(answer, tempoOk) ==
    /\ reply = NoReply
    /\ UNCHANGED jira_client
    /\ with_tempo_client("get_accounts_for_tempo", EmptyDict, tempoOk,
                         GetAccountsReply(answer))

(***************************************************************************)
(* The tracking store: src/src/core/storage/db_manager.py                  *)
(***************************************************************************)
Keys == {"X-1", "X-2"}
IssueTypeArgs == {"Task", "Bug"}
Titles == {"Title A", "Title B"}
Statuses == {"Open", "Done"}
ParentArgs == {NULL, "X-1"}
StatusArgs == {NULL} \cup Statuses

\* CREATE TABLE issues: the row a fresh INSERT builds; created_at and
\* last_updated take DEFAULT CURRENT_TIMESTAMP.
IssueRow(issue_key, issue_type, title, parent_key, status) ==
    [key |-> issue_key, type |-> issue_type, title |-> title,
     parent_key |-> parent_key, status |-> status,
     created_at |-> now, last_updated |-> now]

\* Mutant of UpsertRow: the conflicting row is replaced as a whole, so its
\* created_at restarts.
UpsertRowReplaces(r, title, status) ==
    [r EXCEPT !.title = title, !.status = status, !.last_updated = now,
              !.created_at = now]

\* ON CONFLICT (key) DO UPDATE SET title, status, last_updated.
UpsertRow(r, title, status) ==
    [r EXCEPT !.title = title, !.status = status, !.last_updated = now]

\* The table after INSERT INTO issues ... ON CONFLICT (key) DO UPDATE ...
UpsertIssue(tbl, issue_key, issue_type, title, parent_key, status) ==
    LET conflict == {r \in tbl : r.key = issue_key}
    IN  IF conflict = {}
        THEN tbl \cup {IssueRow(issue_key, issue_type, title, parent_key, status)}
        ELSE (tbl \ conflict) \cup {UpsertRow(r, title, status) : r \in conflict}

store_issue(issue_key, issue_type, title, parent_key, status) ==
    /\ issues' = UpsertIssue(issues, issue_key, issue_type, title, parent_key, status)
    /\ dbCall' = [op |-> "store_issue", key |-> issue_key, outcome |-> "ok",
                  existed |-> (\E r \in issues : r.key = issue_key),
                  title |-> title, status |-> status]
    /\ UNCHANGED <<transitions, comments, now>>

\* Mutant of UpdateStatus: the table is replaced by the updated rows.
UpdateStatusKeepsMatched(tbl, issue_key, new_status) ==
    {[r EXCEPT !.status = new_status, !.last_updated = now] :
        r \in {t \in tbl : t.key = issue_key}}

\* UPDATE issues SET status = ?, last_updated = CURRENT_TIMESTAMP WHERE key = ?
UpdateStatus(tbl, issue_key, new_status) ==
    {IF r.key = issue_key
     THEN [r EXCEPT !.status = new_status, !.last_updated = now]
     ELSE r : r \in tbl}

\* CREATE TABLE transitions (id BIGINT PRIMARY KEY, ...): the column id has
\* no DEFAULT and no sequence, so a row inserted without it has id NULL.
TransitionIdDefault == NullId

\* INSERT INTO transitions (issue_key, from_status, to_status) VALUES (?, ?, ?)
TransitionRow(issue_key, old_status, new_status) ==
    [id |-> TransitionIdDefault, issue_key |-> issue_key,
     from_status |-> old_status, to_status |-> new_status,
     transitioned_at |-> now]

\* The constraints of table transitions, checked on insert: PRIMARY KEY (not
\* null, unique) and FOREIGN KEY (issue_key) REFERENCES issues(key).
TransitionInsertError(row, tbl, issueTbl) ==
    IF row.id = NullId
    THEN "ConstraintException: NOT NULL constraint failed: transitions.id"
    ELSE IF \E i \in DOMAIN tbl : tbl[i].id = row.id
    THEN "ConstraintException: duplicate key"
    ELSE IF row.issue_key # NULL /\ ~(\E r \in issueTbl : r.key = row.issue_key)
    THEN "ConstraintException: foreign key"
    ELSE "ok"

\* Mutant of update_issue_status: the two statements share a transaction,
\* which a failing INSERT rolls back.
update_issue_status_in_transaction(issue_key, new_status, old_status) ==
    LET updated == UpdateStatus(issues, issue_key, new_status)
        row == TransitionRow(issue_key, old_status, new_status)
        err == TransitionInsertError(row, transitions, updated)
    IN  /\ issues' = IF err = "ok" THEN updated ELSE issues
        /\ transitions' = IF err = "ok" THEN Append(transitions, row) ELSE transitions
        /\ dbCall' = [op |-> "update_issue_status", key |-> issue_key,
                      outcome |-> IF err = "ok" THEN "ok" ELSE err,
                      existed |-> (\E r \in issues : r.key = issue_key)]
        /\ UNCHANGED <<comments, now>>

\* The two statements run on an autocommit connection: the UPDATE is
\* committed before the INSERT runs, and a failing INSERT raises.
update_issue_status(issue_key, new_status, old_status) ==
    LET updated == UpdateStatus(issues, issue_key, new_status)
        row == TransitionRow(issue_key, old_status, new_status)
        err == TransitionInsertError(row, transitions, updated)
    IN  /\ issues' = updated
        /\ transitions' = IF err = "ok" THEN Append(transitions, row) ELSE transitions
        /\ dbCall' = [op |-> "update_issue_status", key |-> issue_key,
                      outcome |-> IF err = "ok" THEN "ok" ELSE err,
                      existed |-> (\E r \in issues : r.key = issue_key)]
        /\ UNCHANGED <<comments, now>>

\* update_issue_status in a process that dies between its two statements:
\* the UPDATE, committed on its own, is all that reaches the store (the
\* INSERT, the only reader of old_status, does not run).
update_issue_status_interrupted(issue_key, new_status, old_status) ==
    /\ issues' = UpdateStatus(issues, issue_key, new_status)
    /\ dbCall' = [op |-> "update_issue_status", key |-> issue_key,
                  outcome |-> "interrupted",
                  existed |-> (\E r \in issues : r.key = issue_key)]
    /\ UNCHANGED <<transitions, comments, now>>

\* The calls of store_comment: two ids, one of them used on either issue,
\* by two authors.
CommentArgs ==
    {[id |-> "c1", issue_key |-> "X-1", author |-> "ann", content |-> "text"],
     [id |-> "c1", issue_key |-> "X-2", author |-> "bob", content |-> "edit"],
     [id |-> "c2", issue_key |-> "X-1", author |-> "bob", content |-> "edit"]}

\* The calls of store_issue of the whole-store specification: X-1 without a
\* parent, X-2 without one or under X-1.
TrackedIssueArgs ==
    {[key |-> "X-1", parent_key |-> NULL], [key |-> "X-2", parent_key |-> NULL],
     [key |-> "X-2", parent_key |-> "X-1"]}

\* CREATE TABLE comments: the row an INSERT builds; created_at takes
\* DEFAULT CURRENT_TIMESTAMP.
CommentRow(comment_id, issue_key, author, content) ==
    [id |-> comment_id, issue_key |-> issue_key, author |-> author,
     content |-> content, created_at |-> now]

DuplicateCommentId == "ConstraintException: duplicate key: comments.id"
CommentForeignKey == "ConstraintException: foreign key: comments.issue_key"

\* Mutant of CommentInsertErrors: the table has no foreign key.
CommentInsertErrorsNoForeignKey(row, tbl, issueTbl) ==
    {"ConstraintException: NOT NULL constraint failed: comments.id" :
        x \in {r \in {row} : r.id = NULL}}
    \cup {DuplicateCommentId : x \in {r \in tbl : r.id = row.id}}

\* Mutant of CommentInsertErrors: the id is not checked for uniqueness.
CommentInsertErrorsNoKey(row, tbl, issueTbl) ==
    {CommentForeignKey : x \in {r \in {row} :
        r.issue_key # NULL /\ ~(\E i \in issueTbl : i.key = r.issue_key)}}

\* The constraints of table comments that an insert of row violates:
\* PRIMARY KEY (not null, unique) and FOREIGN KEY (issue_key) REFERENCES
\* issues(key).
CommentInsertErrors(row, tbl, issueTbl) ==
    {"ConstraintException: NOT NULL constraint failed: comments.id" :
        x \in {r \in {row} : r.id = NULL}}
    \cup {DuplicateCommentId : x \in {r \in tbl : r.id = row.id}}
    \cup {CommentForeignKey : x \in {r \in {row} :
            r.issue_key # NULL /\ ~(\E i \in issueTbl : i.key = r.issue_key)}}

\* INSERT INTO comments (id, issue_key, author, content) VALUES (?, ?, ?, ?)
\* The statement is not wrapped in a try block: a violated constraint raises
\* (when several are violated, the engine reports one of them) and the
\* table is left as it was.
store_comment(comment_id, issue_key, author, content) ==
    LET row == CommentRow(comment_id, issue_key, author, content)
        errs == CommentInsertErrors(row, comments, issues)
    IN  \E outcome \in (IF errs = {} THEN {"ok"} ELSE errs) :
            /\ comments' = IF outcome = "ok" THEN comments \cup {row} ELSE comments
            /\ dbCall' = [op |-> "store_comment", id |-> comment_id,
                          issue_key |-> issue_key, outcome |-> outcome]
            /\ UNCHANGED <<issues, transitions, now>>

\* The days argument of get_issue_history, an Optional[int]: a set of at
\* most one integer, the empty set being None.  The clock counts days.
NoDays == {}
DaysArgs == {NoDays, {0}, {1}}

\* `if days:` -- None and 0 are both false.
DaysGiven(days) == days # NoDays /\ days # {0}

\* The side of a LEFT JOIN that matched no row (all its columns NULL).
NoRow == [matched |-> FALSE]

\* FROM issues i LEFT JOIN issues p ON i.parent_key = p.key
\*               LEFT JOIN comments c ON i.key = c.issue_key
JoinedRows ==
    UNION {LET parents == {p \in issues : i.parent_key # NULL /\ i.parent_key = p.key}
               written == {c \in comments : c.issue_key # NULL /\ i.key = c.issue_key}
           IN  {[i |-> i, p |-> p, c |-> c] :
                   p \in (IF parents = {} THEN {NoRow} ELSE parents),
                   c \in (IF written = {} THEN {NoRow} ELSE written)}
           : i \in issues}

\* WHERE i.created_at >= CURRENT_TIMESTAMP - INTERVAL '{days} days', added
\* to the query only under `if days:`.
HistoryWhere(joined, days) ==
    IF DaysGiven(days)
    THEN {j \in joined : \A d \in days : j.i.created_at >= now - d}
    ELSE joined

\* Mutant of CountComments: COUNT(*) of the group.
CountCommentsStar(group) == Cardinality(group)

\* COUNT(c.id) of a group: the joined rows whose c.id is not NULL.
CountComments(group) == Cardinality({j \in group : j.c # NoRow /\ j.c.id # NULL})

\* GROUP BY i.key, i.type, i.title, i.parent_key, i.status, i.created_at,
\* i.last_updated, p.title, with the SELECT list of the query.
HistoryRows(days) ==
    LET selected == HistoryWhere(JoinedRows, days)
        parent_title(j) == IF j.p = NoRow THEN NULL ELSE j.p.title
        groups == {<<j.i, parent_title(j)>> : j \in selected}
    IN  {[key |-> g[1].key, type |-> g[1].type, title |-> g[1].title,
          parent_key |-> g[1].parent_key, status |-> g[1].status,
          created_at |-> g[1].created_at, last_updated |-> g[1].last_updated,
          parent_title |-> g[2],
          comments_count |->
              CountComments({j \in selected : <<j.i, parent_title(j)>> = g})] :
         g \in groups}

\* ORDER BY i.created_at DESC: any order of the rows in which created_at
\* does not increase (rows of equal created_at come in either order).
OrderedByCreatedDesc(rows) ==
    {r \in [1..Cardinality(rows) -> rows] :
        /\ Range(r) = rows
        /\ \A a, b \in DOMAIN r : a < b => r[a].created_at >= r[b].created_at}

get_issue_history(days) ==
    \E result \in OrderedByCreatedDesc(HistoryRows(days)) :
        /\ dbCall' = [op |-> "get_issue_history", days |-> days,
                      outcome |-> "ok", result |-> result]
        /\ UNCHANGED <<issues, transitions, comments, now>>

\* The columns update_issue is called with (title, status, parent_key) and
\* the value the calls give each; a patch is the kwargs of one call.
MutableColumns == {"title", "status", "parent_key"}

PatchValue(column) ==
    CASE column = "title" -> "Title B"
      [] column = "status" -> "Done"
      [] column = "parent_key" -> NULL

Patches == {[column \in D |-> PatchValue(column)] : D \in SUBSET MutableColumns}

\* The patches of the whole-store specification: none, the title, or every
\* column.
TrackedPatches ==
    {p \in Patches : DOMAIN p \in {{}, {"title"}, MutableColumns}}

\* Mutant of PatchedRow: last_updated is not refreshed.
PatchedRowKeepsStamp(r, patch) ==
    [column \in DOMAIN r |-> IF column \in DOMAIN patch THEN patch[column] ELSE r[column]]

\* SET {field} = ? for every field of kwargs, last_updated = CURRENT_TIMESTAMP
PatchedRow(r, patch) ==
    [column \in DOMAIN r |->
        IF column \in DOMAIN patch THEN patch[column]
        ELSE IF column = "last_updated" THEN now
        ELSE r[column]]

\* `if fields:` UPDATE issues SET ... WHERE key = ?  -- nothing is executed
\* for empty kwargs.
UpdateIssue(tbl, issue_key, patch) ==
    IF DOMAIN patch # {}
    THEN {IF r.key = issue_key THEN PatchedRow(r, patch) ELSE r : r \in tbl}
    ELSE tbl

update_issue(issue_key, patch) ==
    /\ issues' = UpdateIssue(issues, issue_key, patch)
    /\ dbCall' = [op |-> "update_issue", key |-> issue_key, patch |-> patch,
                  outcome |-> "ok"]
    /\ UNCHANGED <<transitions, comments, now>>

\* SELECT column, COUNT(*) FROM tbl GROUP BY column, as a dict.
CountBy(tbl, column) ==
    [v \in {r[column] : r \in tbl} |-> Cardinality({r \in tbl : r[column] = v})]

\* The three queries of get_issue_statistics: issues by type, issues of a
\* non-null status by status, and COUNT(*), COUNT(DISTINCT issue_key),
\* COUNT(DISTINCT author) of comments (DISTINCT counts skip NULL).
IssueStatistics ==
    [issues_by_type |-> CountBy(issues, "type"),
     issues_by_status |-> CountBy({r \in issues : r.status # NULL}, "status"),
     comments |->
        [total |-> Cardinality(comments),
         issues_with_comments |-> Cardinality({c.issue_key : c \in comments} \ {NULL}),
         unique_commenters |-> Cardinality({c.author : c \in comments} \ {NULL})]]

get_issue_statistics ==
    /\ dbCall' = [op |-> "get_issue_statistics", outcome |-> "ok",
                  result |-> IssueStatistics]
    /\ UNCHANGED <<issues, transitions, comments, now>>

\* Time passes between calls.
Tick ==
    /\ now < MaxClock
    /\ now' = now + 1
    /\ UNCHANGED <<issues, transitions, comments, dbCall>>

NoCall == [op |-> "none"]

Init ==
    /\ issues = {}
    /\ transitions = <<>>
    /\ comments = {}
    /\ now = 0
    /\ dbCall = NoCall
    /\ jira_client = NoClient
    /\ tempo_client = NoClient
    /\ reply = NoReply

NextStore ==
    \/ /\ \E k \in Keys, ty \in IssueTypeArgs, ti \in Titles,
            p \in ParentArgs, s \in StatusArgs : store_issue(k, ty, ti, p, s)
       /\ UNCHANGED toolVars
    \/ /\ \E k \in Keys, new \in Statuses, old \in StatusArgs :
            update_issue_status(k, new, old)
       /\ UNCHANGED toolVars
    \/ /\ \E k \in Keys, new \in Statuses :
            update_issue_status_interrupted(k, new, NULL)
       /\ UNCHANGED toolVars
    \/ /\ Tick
       /\ UNCHANGED toolVars

SpecStore == Init /\ [][NextStore]_vars

\* Every operation of the tracking store, on one kind of issue.
NextTracking ==
    \/ /\ \E a \in TrackedIssueArgs :
            store_issue(a.key, "Task", "Title A", a.parent_key, "Open")
       /\ UNCHANGED toolVars
    \/ /\ \E k \in Keys : update_issue_status(k, "Done", "Open")
       /\ UNCHANGED toolVars
    \/ /\ \E a \in CommentArgs : store_comment(a.id, a.issue_key, a.author, a.content)
       /\ UNCHANGED toolVars
    \/ /\ \E k \in Keys, patch \in TrackedPatches : update_issue(k, patch)
       /\ UNCHANGED toolVars
    \/ /\ \E days \in DaysArgs : get_issue_history(days)
       /\ UNCHANGED toolVars
    \/ /\ get_issue_statistics
       /\ UNCHANGED toolVars
    \/ /\ Tick
       /\ UNCHANGED toolVars

SpecTracking == Init /\ [][NextTracking]_vars

\* The issue writes behind update_issue: store_issue on one kind of issue
\* and update_issue with every patch.
NextPatch ==
    \/ /\ \E a \in TrackedIssueArgs :
            store_issue(a.key, "Task", "Title A", a.parent_key, "Open")
       /\ UNCHANGED toolVars
    \/ /\ \E k \in Keys, patch \in Patches : update_issue(k, patch)
       /\ UNCHANGED toolVars
    \/ /\ Tick
       /\ UNCHANGED toolVars

SpecPatch == Init /\ [][NextPatch]_vars

(***************************************************************************)
(* What the tracker may answer: the bounded inputs of the operations.      *)
(***************************************************************************)
FieldIds ==
    {"summary", "customfield_10058", "customfield_10014",
     "customfield_10073", "customfield_10_58"}

IssueTypes == {"Tarefa", "Subtarefa"}

\* The members a dict value may carry ("x" stands for any other member)
\* and the values of each.
MemberNames == {"value", "name", "id", "x"}

MemberValues(k) ==
    CASE k = "value" -> {JStr("High"), JNum(0), JNull}
      [] k = "name" -> {JStr("Sprint 1")}
      [] k = "id" -> {JStr("991")}
      [] k = "x" -> {JNum(1)}

Dicts ==
    UNION {{JObj(m) : m \in {f \in [D -> UNION {MemberValues(k) : k \in D}] :
                                \A k \in D : f[k] \in MemberValues(k)}} :
           D \in SUBSET MemberNames}

Scalars == {JStr("Tag1"), JNum(0)}

\* The items of a list value: scalars and the dicts made of the members
\* the list branch reads.
ListItems == {d \in Dicts : "x" \notin DOMAIN d.m} \cup Scalars

RawValues ==
    Dicts \cup Scalars \cup {JStr("")}
          \cup {JList(e) : e \in SeqsUpTo(ListItems, MaxListLen)}

\* createmeta answers: the call raises, or names no project, or no issue
\* type, or an issue type without fields, or one with field descriptors.
MetaRaises == [raises |-> TRUE]
MetaOk(projects) == [raises |-> FALSE, projects |-> projects]
MetaFields(fields) == MetaOk(<<[issuetypes |-> <<[fields |-> fields]>>]>>)

Descriptors ==
    ("customfield_10058" :> [name |-> "Account"])
        @@ ("summary" :> [name |-> "Resumo"])
        @@ ("customfield_10073" :> EmptyDict)

MetaAnswers ==
    {MetaRaises, MetaOk(<<>>), MetaOk(<<[issuetypes |-> <<>>]>>),
     MetaOk(<<[issuetypes |-> <<EmptyDict>>]>>), MetaFields(Descriptors)}

\* The parent reference of the issue: absent, or the key of the parent with
\* the raw JSON of the reference, which embeds the parent's summary or not.
\* ParentSummary is the summary the tracker holds for the parent issue.
ParentSummary == "Epic"
NoParent == [present |-> FALSE]
Parent(raw) == [present |-> TRUE, key |-> "PROJ-0", raw |-> raw]
Parents ==
    {NoParent, Parent([fields |-> [summary |-> ParentSummary]]), Parent([fields |-> EmptyDict]),
     Parent(EmptyDict)}

Descriptions == {NULL, "", " ", "\t\n", "h1. Title", " padded "}

SubtaskKeys == {"PROJ-2", "PROJ-3"}

Subtask(description, assignee) ==
    [found |-> TRUE, summary |-> "Subtask", description |-> description,
     status |-> "To Do", issuetype |-> "Subtarefa",
     assignee |-> assignee, priority |-> NULL]

SubtaskAnswers ==
    {NotFound, Subtask(NULL, NULL), Subtask("  ", "Jane Smith"),
     Subtask("sub text", "Jane Smith")}

Issue(issue_type, description, parent, assignee, subtasks, raw) ==
    [found |-> TRUE, key |-> "PROJ-1", summary |-> "Main Task",
     description |-> description, issuetype |-> issue_type, status |-> "In Progress",
     project |-> "PROJ", parent |-> parent, assignee |-> assignee,
     priority |-> NULL, created |-> "2025-09-06T10:00:00", updated |-> "2025-09-06T11:00:00",
     subtasks |-> subtasks, raw |-> raw]

NoSubtasks == [k \in SubtaskKeys |-> NotFound]

\* The transitions an issue may offer, as the tracker lists them.
TransitionOffers ==
    {[id |-> "11", name |-> "Done"],
     [id |-> "21", name |-> "DONE"],
     [id |-> "31", name |-> "In Progress",
      fields |-> ("resolution" :> [name |-> "Resolution",
                                   schema |-> [type |-> "resolution"]])
                    @@ ("customfield_10058" :> EmptyDict)]}

TransitionNames == {"done", "In progress", "Close"}

TransitionAnswers ==
    {NotFound} \cup
    {[found |-> TRUE, transitions |-> ts, accepts |-> ok] :
        ts \in SeqsUpTo(TransitionOffers, MaxTransitions), ok \in BOOLEAN}

Comments ==
    {[author |-> "John Doe", created |-> "2025-09-06", body |-> "first"],
     [author |-> "Jane Smith", created |-> "2025-09-07", body |-> "second"]}

CommentAnswers ==
    {NotFound} \cup
    {[found |-> TRUE, comments |-> cs] : cs \in SeqsUpTo(Comments, MaxComments)}

CommentCounts == {-1, 0, 1, 5}

Children ==
    {[key |-> "PROJ-2", summary |-> "Child", status |-> "To Do",
      issuetype |-> "Subtarefa", assignee |-> a, priority |-> NULL,
      created |-> "2025-09-06T10:00:00", updated |-> "2025-09-06T11:00:00"] :
        a \in {NULL, "Jane Smith"}}

ParentAnswers ==
    {NotFound, Issue("Tarefa", "text", NoParent, NULL, <<>>, EmptyDict)}

\* The schema of an issue type as createmeta answers it: the fields in the
\* order of the answer, each with its descriptor.
SchemaEntries ==
    <<[field |-> "summary", name |-> "Resumo", schema |-> [type |-> "string"]],
      [field |-> "attachment", name |-> "Anexo", schema |-> [type |-> "array"],
       allowedValues |-> <<>>],
      [field |-> "customfield_10014", name |-> "Epic Link", schema |-> [type |-> "any"]],
      [field |-> "issuetype", name |-> "Tipo de item", schema |-> [type |-> "issuetype"],
       allowedValues |-> <<[id |-> "10045", name |-> "Tarefa", self |-> "https://tracker"],
                          [value |-> "Other", key |-> "OT"]>>]>>

SchemaAnswers ==
    {MetaRaises, MetaOk(<<>>), MetaOk(<<[issuetypes |-> <<>>]>>),
     MetaOk(<<[issuetypes |-> <<[fields |-> <<>>]>>]>>),
     MetaOk(<<[issuetypes |-> <<[fields |-> SchemaEntries]>>]>>)}

ProjectKeys == {"ARQPERF", "PROJ"}

\* The field argument: omitted (None), a field of the schema, an ignored
\* one, or one the schema does not have.
FieldArgs == {NULL, "summary", "issuetype", "customfield_10014", "attachment",
              "customfield_10058"}

\* What the tracker and Tempo answer a worklog registration made on day
\* today: the user search raises, finds nobody or finds a user; the issue is
\* missing or found; the worklog creation fails or succeeds.
UserAnswers ==
    {[raises |-> TRUE], [raises |-> FALSE, found |-> <<>>],
     [raises |-> FALSE, found |-> <<[accountId |-> "acc-1"]>>]}

WorklogAnswers ==
    [users : UserAnswers, issue : {NotFound, [found |-> TRUE, id |-> "10001"]},
     tempo : {[raises |-> TRUE], [raises |-> FALSE]}, today : 0..MaxClock]

TaskDateArgs == {Omitted, "2025-09-07"}

TempoAccounts ==
    <<[key |-> "PROJ-MAIN", name |-> "Main Project", status |-> "OPEN"],
      [key |-> "PROJ-OLD", name |-> "Old Project", status |-> "CLOSED"],
      [key |-> "PROJ-DEV", name |-> "Development", status |-> "OPEN"]>>

AccountAnswers ==
    {[raises |-> TRUE]} \cup
    {[raises |-> FALSE, accounts |-> SubSeq(TempoAccounts, a, b)] : a \in 1..3, b \in 1..3}

DetailInput(issue, subs, meta) ==
    [issue_key |-> "PROJ-1", issue |-> issue, subs |-> subs, meta |-> meta]

\* One custom field of any shape.
DeepInputs ==
    {DetailInput(Issue("Tarefa", "text", NoParent, NULL, <<>>,
                       "customfield_10058" :> v),
                 NoSubtasks, MetaFields(Descriptors)) : v \in RawValues}

\* Any set of fields, each null or filled, for every issue type and every
\* createmeta answer.
WideInputs ==
    {DetailInput(Issue(ty, "text", NoParent, NULL, <<>>, raw), NoSubtasks, meta) :
        ty \in IssueTypes, meta \in MetaAnswers,
        raw \in UNION {[D -> {JNull, JStr("High")}] : D \in SUBSET FieldIds}}

\* Descriptions, parents, assignees and subtasks, for every issue type.
ShapeInputs ==
    {DetailInput(Issue(ty, d, p, a, st, "customfield_10058" :> JStr("High")),
                 subs, MetaRaises) :
        ty \in IssueTypes, d \in Descriptions, p \in Parents, a \in {NULL, "John Doe"},
        st \in SeqsUpTo(SubtaskKeys, MaxSubtasks),
        subs \in [SubtaskKeys -> SubtaskAnswers]}

DetailInputs ==
    DeepInputs \cup WideInputs \cup ShapeInputs
        \cup {DetailInput(NotFound, NoSubtasks, MetaRaises)}

(***************************************************************************)
(* The state machine of the tracker-facing operations: one call at a time  *)
(* (a call starts when no reply is in flight).                             *)
(***************************************************************************)
\* config.get_blacklisted_fields, called on its own.
call_get_blacklisted_fields(issue_type) ==
    /\ reply = NoReply
    /\ reply' = Returned("get_blacklisted_fields", [issue_type |-> issue_type],
                         NoUpstream, get_blacklisted_fields(issue_type), <<>>)
    /\ UNCHANGED <<jira_client, tempo_client>>

\* The caller takes the reply; the next call may start.
Deliver ==
    /\ reply # NoReply
    /\ reply' = NoReply
    /\ UNCHANGED <<jira_client, tempo_client>>

Next ==
    \/ /\ reply = NoReply
       /\ \E in \in DetailInputs, initOk \in BOOLEAN :
            get_issue_details_impl(in.issue_key, in.issue, in.subs, in.meta, initOk)
       /\ UNCHANGED storeVars
    \/ /\ reply = NoReply
       /\ \E name \in TransitionNames, answer \in TransitionAnswers, initOk \in BOOLEAN :
            transition_jira_issue_impl("PROJ-1", name, answer, initOk)
       /\ UNCHANGED storeVars
    \/ /\ reply = NoReply
       /\ \E answer \in TransitionAnswers, initOk \in BOOLEAN :
            get_transitions_with_fields_impl("PROJ-1", answer, initOk)
       /\ UNCHANGED storeVars
    \/ /\ reply = NoReply
       /\ \E n \in CommentCounts, answer \in CommentAnswers, initOk \in BOOLEAN :
            get_last_comments_impl("PROJ-1", n, answer, initOk)
       /\ UNCHANGED storeVars
    \/ /\ reply = NoReply
       /\ \E answer \in {NotFound, [found |-> TRUE]}, initOk \in BOOLEAN :
            add_comment_to_issue_impl("PROJ-1", "*done*", answer, initOk)
       /\ UNCHANGED storeVars
    \/ /\ reply = NoReply
       /\ \E answer \in ParentAnswers, children \in SeqsUpTo(Children, MaxChildren),
            initOk \in BOOLEAN :
            get_child_issues_by_parent_impl("PROJ-1", answer, children, initOk)
       /\ UNCHANGED storeVars
    \/ /\ reply = NoReply
       /\ \E project_key \in ProjectKeys, issue_type_name \in IssueTypes,
            field \in FieldArgs, meta \in SchemaAnswers, initOk \in BOOLEAN :
            get_issue_type_custom_fields_by_project_impl(project_key, issue_type_name,
                                                         field, meta, initOk)
       /\ UNCHANGED storeVars
    \/ /\ reply = NoReply
       /\ \E task_date \in TaskDateArgs \cup {NULL}, upstream \in WorklogAnswers,
            jiraOk \in BOOLEAN, tempoOk \in BOOLEAN :
            register_worklog_tempo("PROJ-1", task_date, upstream, jiraOk, tempoOk)
       /\ UNCHANGED storeVars
    \/ /\ reply = NoReply
       /\ \E task_date \in TaskDateArgs, upstream \in WorklogAnswers,
            jiraOk \in BOOLEAN, tempoOk \in BOOLEAN :
            log_time_spent_in_issue("PROJ-1", task_date, upstream, jiraOk, tempoOk)
       /\ UNCHANGED storeVars
    \/ /\ reply = NoReply
       /\ \E answer \in AccountAnswers, tempoOk \in BOOLEAN :
            get_accounts_for_tempo(answer, tempoOk)
       /\ UNCHANGED storeVars
    \/ /\ reply = NoReply
       /\ \E t \in IssueTypes \cup {"Bug"} : call_get_blacklisted_fields(t)
       /\ UNCHANGED storeVars
    \/ /\ Deliver
       /\ UNCHANGED storeVars

Spec == Init /\ [][Next]_vars

(***************************************************************************)
(* Claims about the tracking store (checked under SpecStore).              *)
(***************************************************************************)
RowsOf(tbl, k) == {r \in tbl : r.key = k}

OneRowPerKey == \A k \in Keys : Cardinality(RowsOf(issues, k)) <= 1

\* A step of store_issue: the call recorded in dbCall' was made in this step
\* (the clock step is the only other step that can leave dbCall alone).
StoreIssueStep == dbCall'.op = "store_issue" /\ now' = now

\* What a store_issue(k, _, ti, _, s) step must do to the issues table.
UpsertEffect(k, ti, s) ==
    /\ Cardinality(RowsOf(issues', k)) = 1
    /\ \A other \in Keys \ {k} : RowsOf(issues', other) = RowsOf(issues, other)
    /\ \A old \in RowsOf(issues, k) : \A new \in RowsOf(issues', k) :
          /\ new.title = ti
          /\ new.status = s
          /\ new.last_updated = now
          /\ new.type = old.type
          /\ new.parent_key = old.parent_key
          /\ new.created_at = old.created_at

\* C1: store_issue is an upsert by key: the issues table always holds at most
\* one row per key (exactly one for every key stored), and a store_issue on a
\* key that already has a row sets that row's title and status to the new
\* arguments and its last_updated to the current timestamp, leaving its type,
\* parent_key and created_at, and every other row, unchanged.
C1_StoreIssueUpsert ==
    /\ []OneRowPerKey
    /\ [][StoreIssueStep =>
             UpsertEffect(dbCall'.key, dbCall'.title, dbCall'.status)]_vars

\* A second store_issue on a stored key, later than the first insert, with
\* another stored key beside it.
C1_Witness ==
    /\ dbCall.op = "store_issue"
    /\ dbCall.existed
    /\ \E r \in issues : /\ r.key = dbCall.key
                         /\ r.created_at < r.last_updated
                         /\ r.title = "Title B"
                         /\ r.status = "Open"
    /\ \E r \in issues : r.key # dbCall.key

\* C2: for a tracked key, update_issue_status(key, new_status, old_status)
\* completes successfully, appends exactly one row to transitions with
\* from_status = old_status, to_status = new_status and an assigned id, and
\* sets the issue row's status to new_status.
C2_StatusUpdateAppendsTransition ==
    [][\A k \in Keys, new \in Statuses, old \in StatusArgs :
         (update_issue_status(k, new, old) /\ RowsOf(issues, k) # {}) =>
            /\ dbCall'.outcome = "ok"
            /\ Len(transitions') = Len(transitions) + 1
            /\ SubSeq(transitions', 1, Len(transitions)) = transitions
            /\ transitions'[Len(transitions')].from_status = old
            /\ transitions'[Len(transitions')].to_status = new
            /\ transitions'[Len(transitions')].issue_key = k
            /\ transitions'[Len(transitions')].id # NullId
            /\ \A r \in RowsOf(issues', k) : r.status = new]_vars

(***************************************************************************)
(* Claims about the issue projection (checked under Spec).                 *)
(***************************************************************************)
\* get_issue_details_impl has returned a projection.
Projected == reply.op = "get_issue_details_impl" /\ reply.outcome = "returned"

\* The field ids of FieldIds that follow the custom-field naming convention.
CustomFieldIds ==
    {"customfield_10058", "customfield_10014", "customfield_10073", "customfield_10_58"}

\* The value the claim gives a single structured object.
ClaimedObjectValue(obj) ==
    LET extracted == IF "value" \in DOMAIN obj.m THEN obj.m["value"]
                     ELSE IF "name" \in DOMAIN obj.m THEN obj.m["name"]
                     ELSE obj
    IN  IF "id" \in DOMAIN obj.m
        THEN JObj([id |-> obj.m["id"], value |-> extracted])
        ELSE extracted

\* C3: the normalized value of a custom field whose raw value is a single
\* structured object is its value member if present, else its name member,
\* else the object itself, wrapped as {id, value} whenever the object carries
\* an id: {"value":"High"} yields "High" and {"value":"High","id":"991"}
\* yields {"id":"991","value":"High"}.
C3_SingleObjectValue ==
    Projected =>
        \A f \in DOMAIN reply.value.custom_fields :
            LET raw == reply.upstream.issue.raw[f]
                out == reply.value.custom_fields[f].value
            IN  /\ raw.t = "obj" => out = ClaimedObjectValue(raw)
                /\ raw = JObj([value |-> JStr("High")]) => out = JStr("High")
                /\ raw = JObj([value |-> JStr("High"), id |-> JStr("991")])
                      => out = JObj([id |-> JStr("991"), value |-> JStr("High")])

\* A projection of {"value":"High","id":"991"}.
C3_Witness ==
    /\ Projected
    /\ "customfield_10058" \in DOMAIN reply.value.custom_fields
    /\ reply.upstream.issue.raw["customfield_10058"]
          = JObj([value |-> JStr("High"), id |-> JStr("991")])
    /\ reply.value.custom_fields["customfield_10058"].value
          = JObj([id |-> JStr("991"), value |-> JStr("High")])

\* What the claim keeps of one list element: an object element gives its
\* value member, else its name member (wrapped with its id), and nothing
\* when it has neither or the member is null; any other element is kept.
ClaimedItem(item) ==
    IF item.t # "obj" THEN <<item>>
    ELSE LET extracted == Get(item.m, "value", Get(item.m, "name", JNull))
         IN  IF extracted = JNull THEN <<>>
             ELSE IF "id" \in DOMAIN item.m
             THEN <<JObj([id |-> item.m["id"], value |-> extracted])>>
             ELSE <<extracted>>

RECURSIVE ClaimedItems(_)
ClaimedItems(items) ==
    IF items = <<>> THEN <<>>
    ELSE ClaimedItem(Head(items)) \o ClaimedItems(Tail(items))

\* C4: the normalized value of a custom field whose raw value is a list is
\* the list, in the original order, of the extraction of each object element
\* and of the other elements unchanged, dropping only the elements that
\* extracted to nothing; when that list is empty, the raw list itself.
C4_ListValue ==
    Projected =>
        \A f \in DOMAIN reply.value.custom_fields :
            LET raw == reply.upstream.issue.raw[f]
                out == reply.value.custom_fields[f].value
            IN  raw.t = "list" =>
                    out = IF ClaimedItems(raw.e) # <<>>
                          THEN JList(ClaimedItems(raw.e)) ELSE raw

\* C5: no field id of the effective blacklist of the issue's type is in the
\* custom_fields of the projection.
C5_BlacklistedFieldsAbsent ==
    Projected =>
        \A f \in Range(get_blacklisted_fields(reply.value.issue_type)) :
            f \notin DOMAIN reply.value.custom_fields

\* C6: custom_fields has no entry for a field whose id does not follow the
\* custom-field naming convention nor for a field whose raw value is null;
\* every entry is keyed by its own field id, which is its key member.
C6_OnlyFilledCustomFields ==
    Projected =>
        \A f \in DOMAIN reply.value.custom_fields :
            /\ f \in CustomFieldIds
            /\ f \in DOMAIN reply.upstream.issue.raw
            /\ reply.upstream.issue.raw[f] # JNull
            /\ reply.value.custom_fields[f].key = f

\* A projection of an issue with a filled non-custom field, a null custom
\* field and a filled custom field: only the last has an entry.
C6_Witness ==
    /\ Projected
    /\ DOMAIN reply.upstream.issue.raw = {"summary", "customfield_10058", "customfield_10_58"}
    /\ reply.upstream.issue.raw["summary"] = JStr("High")
    /\ reply.upstream.issue.raw["customfield_10058"] = JNull
    /\ reply.upstream.issue.raw["customfield_10_58"] = JStr("High")
    /\ DOMAIN reply.value.custom_fields = {"customfield_10_58"}

\* The createmeta answer gives no field descriptors: the call raised, or
\* named no project, or no issue type.
MetaUnavailable(meta) ==
    \/ meta.raises
    \/ meta.projects = <<>>
    \/ meta.projects[1].issuetypes = <<>>

\* The display name the createmeta answer gives field f, or f when it gives none.
ClaimedName(meta, f) ==
    IF MetaUnavailable(meta) THEN f
    ELSE LET entry == meta.projects[1].issuetypes[1]
         IN  IF /\ "fields" \in DOMAIN entry
                /\ f \in DOMAIN entry["fields"]
                /\ "name" \in DOMAIN entry["fields"][f]
             THEN entry["fields"][f]["name"]
             ELSE f

\* C10: whatever the createmeta call does (raises, names no project or no
\* issue type, or answers), the projection of an issue whose fetches succeed
\* returns; every custom field entry has name equal to its field id when the
\* metadata is unavailable, and otherwise to the descriptor's display name
\* for a field the metadata describes and to the field id for any other.
C10_MetadataBestEffort ==
    (/\ reply.op = "get_issue_details_impl"
     /\ reply.upstream # NoUpstream
     /\ reply.upstream.issue.found
     /\ \A i \in DOMAIN reply.upstream.issue.subtasks :
           reply.upstream.subtasks[reply.upstream.issue.subtasks[i]].found)
    => /\ reply.outcome = "returned"
       /\ \A f \in DOMAIN reply.value.custom_fields :
             reply.value.custom_fields[f].name = ClaimedName(reply.upstream.meta, f)
       /\ MetaUnavailable(reply.upstream.meta) =>
             \A f \in DOMAIN reply.value.custom_fields :
                 reply.value.custom_fields[f].name = f

\* A projection made while createmeta raises, with two entries named by id.
C10_Witness ==
    /\ Projected
    /\ reply.upstream.meta.raises
    /\ {"customfield_10058", "customfield_10073"} \subseteq DOMAIN reply.value.custom_fields
    /\ reply.value.custom_fields["customfield_10058"].name = "customfield_10058"

(***************************************************************************)
(* Claims about the effective blacklist (checked under Spec).              *)
(***************************************************************************)
\* The field ids the claim puts in the effective blacklist of issue type t.
ClaimedBlacklist(t) ==
    (IF t \in DOMAIN FIELD_BLACKLIST THEN Range(FIELD_BLACKLIST[t]) ELSE {})
        \cup Range(GLOBAL_BLACKLIST)

\* C7: for every issue type t, the blacklist returned for t contains exactly
\* the field ids of t's own list (none if t has no list) together with those
\* of the global list; for a type without a list of its own the returned
\* list is exactly the global list.
C7_EffectiveBlacklist ==
    reply.op = "get_blacklisted_fields"
    => LET t == reply.args.issue_type
       IN  /\ reply.outcome = "returned"
           /\ Range(reply.value) = ClaimedBlacklist(t)
           /\ t \notin DOMAIN FIELD_BLACKLIST => reply.value = GLOBAL_BLACKLIST

\* The blacklist of a type with a list of its own: eleven ids of the type
\* and the five global ones.
C7_Witness ==
    /\ reply.op = "get_blacklisted_fields"
    /\ reply.args.issue_type = "Subtarefa"
    /\ Cardinality(Range(reply.value)) = 16
    /\ {"customfield_10073", "customfield_10014"} \subseteq Range(reply.value)

(***************************************************************************)
(* Claims about transitioning an issue (checked under Spec).               *)
(***************************************************************************)
\* A call of transition_jira_issue_impl whose listing the tracker answered.
TransitionListed ==
    /\ reply.op = "transition_jira_issue_impl"
    /\ reply.upstream # NoUpstream
    /\ reply.upstream.issue.found

\* The positions, in calls, of the transitions executed on the tracker.
Executed(calls) == {i \in DOMAIN calls : calls[i].api = "transition_issue"}

\* C8: the requested name is matched case-insensitively against the
\* available transitions; when none matches, the call raises a ValueError
\* whose message contains every available transition name and no transition
\* is executed; when one matches, exactly one transition is executed, the
\* first matching one.
C8_TransitionByName ==
    TransitionListed
    => LET listed == reply.upstream.issue.transitions
           matching == {i \in DOMAIN listed :
                           Lower(listed[i]["name"]) = Lower(reply.args.transition_name)}
       IN  IF matching = {}
           THEN /\ reply.outcome = "raised"
                /\ StartsWith(reply.value, "ValueError")
                /\ \A i \in DOMAIN listed : Occurs(listed[i]["name"], reply.value)
                /\ Executed(reply.calls) = {}
           ELSE /\ Cardinality(Executed(reply.calls)) = 1
                /\ \A c \in Executed(reply.calls) :
                      \A i \in matching :
                          (\A j \in matching : i <= j)
                          => reply.calls[c].args.transition = listed[i]["id"]

\* Two transitions match "done" and the first one, "Done" (11), is executed.
C8_Witness ==
    /\ TransitionListed
    /\ reply.args.transition_name = "done"
    /\ reply.upstream.issue.transitions =
          <<[id |-> "11", name |-> "Done"], [id |-> "21", name |-> "DONE"]>>
    /\ reply.outcome = "returned"
    /\ \E c \in Executed(reply.calls) : reply.calls[c].args.transition = "11"

(***************************************************************************)
(* Claims about a missing issue (checked under Spec).                      *)
(***************************************************************************)
RaisingLookups ==
    {"get_issue_details_impl", "get_transitions_with_fields_impl",
     "transition_jira_issue_impl"}

MessageLookups == {"get_last_comments_impl", "add_comment_to_issue_impl"}

DictLookups == {"get_child_issues_by_parent_impl"}

\* A call whose lookup of the issue by key the tracker answered not-found.
IssueNotFound ==
    /\ reply.op \in RaisingLookups \cup MessageLookups \cup DictLookups
    /\ reply.upstream # NoUpstream
    /\ ~reply.upstream.issue.found

\* C9: every operation that looks an issue up by key (issue details,
\* comments listing, comment adding, child-issue listing, transitions)
\* raises the not-found condition to the caller and never returns it as an
\* ordinary result value.
C9_NotFoundIsRaised ==
    IssueNotFound => /\ reply.outcome = "raised"
                     /\ reply.value = NotFoundError

\* C9, as the code has it: issue details, the transitions listing and the
\* transition raise the not-found condition; the comments listing and the
\* comment adding return it as a failure message, and the child-issue
\* listing returns it as a dictionary with an error member, no children and
\* a total of zero.
C9_NotFoundRaisedOrReturned ==
    IssueNotFound
    => /\ reply.op \in RaisingLookups
          => /\ reply.outcome = "raised"
             /\ reply.value = NotFoundError
       /\ reply.op \in MessageLookups
          => /\ reply.outcome = "returned"
             /\ StartsWith(reply.value, "Failed to ")
             /\ Occurs(NotFoundError, reply.value)
       /\ reply.op \in DictLookups
          => /\ reply.outcome = "returned"
             /\ DOMAIN reply.value = {"error", "parent_key", "children", "total_children"}
             /\ Occurs(NotFoundError, reply.value.error)
             /\ reply.value.children = <<>>
             /\ reply.value.total_children = 0

\* The child-issue listing of a missing parent returns an error dictionary.
C9_Witness ==
    /\ IssueNotFound
    /\ reply.op = "get_child_issues_by_parent_impl"
    /\ reply.outcome = "returned"
    /\ "error" \in DOMAIN reply.value

(***************************************************************************)
(* Claims about the whole tracking store (checked under SpecTracking).     *)
(***************************************************************************)
\* A step of store_comment: the call recorded in dbCall' was made in this
\* step.
StoreCommentStep == dbCall'.op = "store_comment" /\ now' = now

HistoryStep == dbCall'.op = "get_issue_history" /\ now' = now

HistoryKeys(result) == {result[n].key : n \in DOMAIN result}

\* C12: for every days >= 0, days = 0 included, get_issue_history(days)
\* does not fail and returns exactly the tracked issues whose created_at is
\* at or after now minus days days; with days omitted, all tracked issues.
C12_HistoryWindow ==
    [][HistoryStep
       => /\ dbCall'.outcome = "ok"
          /\ HistoryKeys(dbCall'.result) =
                IF dbCall'.days = NoDays
                THEN {i.key : i \in issues}
                ELSE {i.key : i \in {r \in issues :
                                        \A d \in dbCall'.days : r.created_at >= now - d}}]_vars

\* C13: get_issue_history returns each selected tracked issue once, however
\* many comments it has, newest-created first, with the columns of its row,
\* comments_count the number of comments stored for its key and
\* parent_title the title of its parent when the parent is tracked, else
\* null; with days omitted every tracked issue is selected.
C13_HistoryRows ==
    [][HistoryStep
       => LET result == dbCall'.result
          IN  /\ \A a, b \in DOMAIN result :
                    /\ a # b => result[a].key # result[b].key
                    /\ a < b => result[a].created_at >= result[b].created_at
              /\ dbCall'.days = NoDays => HistoryKeys(result) = {i.key : i \in issues}
              /\ \A n \in DOMAIN result :
                    \E i \in issues :
                        /\ i.key = result[n].key
                        /\ i.type = result[n].type /\ i.title = result[n].title
                        /\ i.parent_key = result[n].parent_key
                        /\ i.status = result[n].status
                        /\ i.created_at = result[n].created_at
                        /\ i.last_updated = result[n].last_updated
                        /\ result[n].comments_count =
                              Cardinality({c \in comments : c.issue_key = i.key})
                        /\ result[n].parent_title =
                              IF \E p \in issues : p.key = i.parent_key
                              THEN (CHOOSE p \in issues : p.key = i.parent_key).title
                              ELSE NULL]_vars

\* The history of X-2, created last under the tracked X-1, and of X-1 with
\* its two comments: X-2 first, with its parent's title; X-1 once.
C13_Witness ==
    /\ dbCall.op = "get_issue_history"
    /\ Len(dbCall.result) = 2
    /\ dbCall.result[1].key = "X-2"
    /\ dbCall.result[1].created_at > dbCall.result[2].created_at
    /\ dbCall.result[1].parent_title = "Title A"
    /\ dbCall.result[1].comments_count = 0
    /\ dbCall.result[2].comments_count = 2
    /\ dbCall.result[2].parent_title = NULL

\* A step of update_issue: the call recorded in dbCall' was made in this
\* step.
UpdateIssueStep == dbCall'.op = "update_issue" /\ now' = now

\* C14: update_issue(key, **patch) with an empty patch changes nothing in
\* the store, last_updated included; with a non-empty patch it sets exactly
\* the named columns of the row with that key and refreshes its
\* last_updated, leaving the other columns of that row and every other row
\* as they were; it never creates a row.
C14_UpdateIssuePatch ==
    [][UpdateIssueStep
       => LET k == dbCall'.key
              patch == dbCall'.patch
              named == DOMAIN patch
              Stamped(r) == [r EXCEPT !.last_updated = now]
              Titled(r) == IF "title" \in named THEN [r EXCEPT !.title = patch.title] ELSE r
              Moved(r) == IF "status" \in named THEN [r EXCEPT !.status = patch.status] ELSE r
              Adopted(r) ==
                  IF "parent_key" \in named
                  THEN [r EXCEPT !.parent_key = patch.parent_key] ELSE r
          IN  /\ dbCall'.outcome = "ok"
              /\ comments' = comments /\ transitions' = transitions
              /\ named \subseteq MutableColumns
              /\ named = {} => issues' = issues
              /\ named # {} =>
                    issues' = {IF r.key = k THEN Adopted(Moved(Titled(Stamped(r)))) ELSE r :
                                  r \in issues}]_vars

\* X-2, stored under X-1 on day 0, had its title alone patched on day 1.
C14_Witness ==
    /\ dbCall.op = "update_issue"
    /\ dbCall.key = "X-2"
    /\ DOMAIN dbCall.patch = {"title"}
    /\ \E r \in issues :
          /\ r.key = "X-2" /\ r.title = "Title B" /\ r.status = "Open"
          /\ r.parent_key = "X-1" /\ r.created_at = 0 /\ r.last_updated = 1
    /\ \E r \in issues : r.key = "X-1" /\ r.title = "Title A" /\ r.last_updated = 0

\* C15: across any sequence of store_issue, update_issue_status,
\* update_issue, store_comment, get_issue_history and get_issue_statistics,
\* no tracked issue row is deleted and no transition row or comment row is
\* modified or deleted: the transitions and comments tables only grow by
\* appended rows.
C15_AppendOnly ==
    [][/\ \A r \in issues : \E kept \in issues' :
             kept.key = r.key /\ kept.created_at = r.created_at
       /\ comments \subseteq comments'
       /\ Len(transitions) <= Len(transitions')
       /\ SubSeq(transitions', 1, Len(transitions)) = transitions]_vars

\* Both issues are tracked, X-1 since day 0 and since updated, and a second
\* comment was stored a day after the first, which is still there.
C15_Witness ==
    /\ \E r \in issues :
          r.key = "X-1" /\ r.created_at = 0 /\ r.last_updated = 1 /\ r.status = "Done"
    /\ \E r \in issues : r.key = "X-2"
    /\ \E c \in comments : c.id = "c1" /\ c.created_at = 0
    /\ \E c \in comments : c.id = "c2" /\ c.created_at = 1
    /\ dbCall.op = "get_issue_statistics"
    /\ dbCall.result.comments.total = 2

(***************************************************************************)
(* Claims about the schema listing (checked under Spec).                   *)
(***************************************************************************)
SchemaListing == reply.op = "get_issue_type_custom_fields_by_project_impl"

\* The descriptors the claim lists: those of all fields but the ignored
\* ones when no field is asked for, else that of the field asked for.
RECURSIVE ClaimedCampos(_, _)
ClaimedCampos(entries, field) ==
    IF entries = <<>> THEN <<>>
    ELSE (IF /\ Head(entries).field \notin campos_ignorar
             /\ (field = NULL \/ field = Head(entries).field)
          THEN <<SchemaItem(Head(entries))>>
          ELSE <<>>)
         \o ClaimedCampos(Tail(entries), field)

\* C17: with the field argument omitted, the schema listing returns a
\* descriptor (field, name, schema, allowedValues) for every field of the
\* schema other than the ignored ones; with a field id, only the descriptor
\* of that field.
C17_SchemaListingFields ==
    (SchemaListing /\ reply.outcome = "returned")
    => reply.value =
          JsonArray(ClaimedCampos(reply.upstream.meta.projects[1].issuetypes[1].fields,
                                  reply.args.field))

\* C18: the metadata request sent to the tracker carries the project key
\* and the issue-type name of the call's arguments.
C18_SchemaRequestOfArguments ==
    (SchemaListing /\ reply.upstream # NoUpstream)
    => /\ Len(reply.calls) = 1
       /\ reply.calls[1].api = "createmeta"
       /\ reply.calls[1].args.projectKeys = reply.args.project_key
       /\ reply.calls[1].args.issuetypeNames = reply.args.issue_type_name

\* C19: the schema listing returns no field whose id is in the effective
\* blacklist of the requested issue type.
C19_SchemaListingBlacklist ==
    (SchemaListing /\ reply.outcome = "returned")
    => \A f \in Range(get_blacklisted_fields(reply.args.issue_type_name)) :
          ~Occurs(JsonString("field") \o ": " \o JsonString(f), reply.value)

(***************************************************************************)
(* Claims about worklogs and accounts (checked under Spec).                *)
(***************************************************************************)
WorklogOps == {"register_worklog_tempo", "log_time_spent_in_issue"}

\* The body of a worklog registration, or of the account listing, ran.
WorklogCalled == reply.op \in WorklogOps /\ reply.upstream # NoUpstream
AccountsCalled == reply.op = "get_accounts_for_tempo" /\ reply.upstream # NoUpstream

\* The user search was made and failed upstream.
UserSearchFailed == WorklogCalled /\ reply.upstream.users.raises

\* The worklog creation was made and failed upstream.
WorklogCreationFailed ==
    /\ WorklogCalled
    /\ \E c \in DOMAIN reply.calls : reply.calls[c].api = "create_worklog"
    /\ reply.upstream.tempo.raises

AccountListingFailed == AccountsCalled /\ reply.upstream.accounts.raises

\* C16: in worklog creation and account listing, an upstream failure of any
\* external call the operation makes is caught and returned to the caller
\* as a failure-message string; the operation does not raise for it.
C16_UpstreamFailureReturned ==
    (UserSearchFailed \/ WorklogCreationFailed \/ AccountListingFailed)
    => /\ reply.outcome = "returned"
       /\ \/ StartsWith(reply.value, "Failed to create worklog: ")
          \/ StartsWith(reply.value, "Error fetching accounts: ")

\* C16, as the code has it: a failure of the Tempo call (the worklog
\* creation, the account listing) is caught and returned as a
\* failure-message string; a failure of the tracker's user search, or a
\* missing issue, in a worklog registration is raised to the caller and no
\* worklog is created.
C16_TempoFailureReturned ==
    /\ WorklogCreationFailed
          => /\ reply.outcome = "returned"
             /\ StartsWith(reply.value, "Failed to create worklog: ")
    /\ AccountListingFailed
          => /\ reply.outcome = "returned"
             /\ StartsWith(reply.value, "Error fetching accounts: ")
    /\ (UserSearchFailed
        \/ (WorklogCalled /\ ~reply.upstream.users.raises
              /\ reply.upstream.users.found # <<>> /\ ~reply.upstream.issue.found))
          => /\ reply.outcome = "raised"
             /\ StartsWith(reply.value, "JIRAError")
             /\ \A c \in DOMAIN reply.calls : reply.calls[c].api # "create_worklog"

\* A worklog registration whose user and issue were found and whose
\* creation Tempo refused: the failure came back as a message.
C16_Witness ==
    /\ WorklogCreationFailed
    /\ reply.op = "register_worklog_tempo"
    /\ reply.outcome = "returned"
    /\ reply.value = "Failed to create worklog: HTTPError: 429 Too Many Requests"

\* C20: when log_time_spent_in_issue is called without task_date, the
\* worklog is created with its date equal to the current date at the time
\* of the call (not a null date and not the date the module was loaded).
C20_WorklogDateIsToday ==
    (reply.op = "log_time_spent_in_issue" /\ reply.args.task_date = Omitted)
    => \A c \in DOMAIN reply.calls :
          reply.calls[c].api = "create_worklog"
          => reply.calls[c].args.dateFrom = strftime(reply.upstream.today)

\* The part of a field id after its last underscore.
AfterLastUnderscore(field_id) ==
    LET parts == Split(field_id, "_") IN parts[Len(parts)]

\* C21: the id of every custom field entry of the projection is the part of
\* its field id after the last underscore, for every field id with one or
\* more underscores.
C21_IdAfterLastUnderscore ==
    Projected =>
        \A f \in DOMAIN reply.value.custom_fields :
            Contains(f, "_") =>
                reply.value.custom_fields[f].id = AfterLastUnderscore(f)

\* The fetches of the parent issue among the tracker calls of the reply.
ParentFetches ==
    {c \in DOMAIN reply.calls :
        /\ reply.calls[c].api = "issue"
        /\ reply.calls[c].args.key = reply.upstream.issue.parent.key}

\* The raw parent reference embeds the parent's summary.
SummaryEmbedded(parent) ==
    /\ "fields" \in DOMAIN parent.raw
    /\ "summary" \in DOMAIN parent.raw["fields"]

\* C22: the parent of the projection is "{parent_key} - {parent_summary}"
\* with the parent's actual summary whenever the raw issue has a parent
\* reference (the embedded summary when present, otherwise the parent is
\* fetched once), and the no-parent sentinel when it has none; a missing
\* parent never fails the projection.
C22_ParentInfo ==
    LET issue == reply.upstream.issue
    IN  /\ Projected =>
              IF issue.parent.present
              THEN /\ reply.value.parent = issue.parent.key \o " - " \o ParentSummary
                   /\ Cardinality(ParentFetches) =
                          IF SummaryEmbedded(issue.parent) THEN 0 ELSE 1
              ELSE reply.value.parent = "No Parent"
        /\ (/\ reply.op = "get_issue_details_impl"
            /\ reply.upstream # NoUpstream
            /\ issue.found
            /\ \A i \in DOMAIN issue.subtasks : reply.upstream.subtasks[issue.subtasks[i]].found)
           => reply.outcome = "returned"

\* A description that is absent, empty or made of whitespace only.
Blank(description) ==
    \/ description = NULL
    \/ \A i \in 1..Len(description) : CharAt(description, i) \in Whitespace

ClaimedDescription(description) ==
    IF Blank(description) THEN "Sem Descricao" ELSE description

\* C23: for the issue and for each of its subtasks, a description that is
\* absent, empty or whitespace-only projects to the sentinel text and any
\* other description is passed through unchanged, whatever the issue type.
C23_DescriptionRule ==
    Projected =>
        LET issue == reply.upstream.issue
            subtasks == reply.value.subtasks
        IN  /\ reply.value.description = ClaimedDescription(issue.description)
            /\ Len(subtasks) = Len(issue.subtasks)
            /\ \A i \in DOMAIN subtasks :
                  /\ subtasks[i].key = issue.subtasks[i]
                  /\ subtasks[i].description =
                         ClaimedDescription(reply.upstream.subtasks[subtasks[i].key].description)

\* A projection of a Subtarefa whose padded description is passed through
\* as it is, with a subtask whose description of blanks became the sentinel.
C23_Witness ==
    /\ Projected
    /\ reply.upstream.issue.issuetype = "Subtarefa"
    /\ reply.upstream.issue.description = " padded "
    /\ reply.value.description = " padded "
    /\ Len(reply.value.subtasks) = 1
    /\ reply.upstream.subtasks[reply.value.subtasks[1].key].description = "  "
    /\ reply.value.subtasks[1].description = "Sem Descricao"

(***************************************************************************)
(* Claims about the writes of update_issue_status (checked under           *)
(* SpecStore) and about referential integrity (under SpecTracking).        *)
(***************************************************************************)
\* The store after the first write of update_issue_status(k, new, _) alone:
\* the row of k has the new status and the current timestamp, every other
\* row is as it was, and transitions has no new row.
OnlyStatusWritten(k, new) ==
    /\ \A r \in RowsOf(issues, k) :
          [r EXCEPT !.status = new, !.last_updated = now] \in issues'
    /\ \A r \in RowsOf(issues', k) : r.status = new
    /\ Cardinality(issues') = Cardinality(issues)
    /\ \A other \in Keys \ {k} : RowsOf(issues', other) = RowsOf(issues, other)
    /\ transitions' = transitions

\* C24: update_issue_status makes its two writes without a shared
\* transaction: when the call is interrupted after the first write, or the
\* second write fails, the store keeps the issue's status set to new_status
\* with no transition row for the change; nothing restores the old status.
C24_StatusWriteNotRolledBack ==
    [][(dbCall'.op = "update_issue_status" /\ dbCall'.outcome # "ok") =>
          \A new \in Statuses :
              (IF dbCall'.outcome = "interrupted"
               THEN update_issue_status_interrupted(dbCall'.key, new, NULL)
               ELSE \E old \in StatusArgs : update_issue_status(dbCall'.key, new, old))
              => OnlyStatusWritten(dbCall'.key, new)]_vars

\* A tracked issue, some time after it was stored, whose status was set by an
\* update_issue_status that failed at its second write: no transition row.
C24_Witness ==
    /\ dbCall.op = "update_issue_status"
    /\ dbCall.existed
    /\ dbCall.outcome \notin {"ok", "interrupted"}
    /\ \E r \in issues : /\ r.key = dbCall.key
                         /\ r.status = "Done"
                         /\ r.created_at < r.last_updated
    /\ transitions = <<>>

(***************************************************************************)
(* Claims about the external clients (checked under Spec).                 *)
(***************************************************************************)
\* The operations decorated with with_jira_client, and with with_tempo_client.
JiraOps ==
    {"get_issue_details_impl", "transition_jira_issue_impl",
     "get_transitions_with_fields_impl", "get_last_comments_impl",
     "add_comment_to_issue_impl", "get_child_issues_by_parent_impl",
     "get_issue_type_custom_fields_by_project_impl",
     "register_worklog_tempo", "log_time_spent_in_issue"}

TempoOps ==
    {"register_worklog_tempo", "log_time_spent_in_issue", "get_accounts_for_tempo"}

\* The body of the decorated function of the reply has run.
BodyRan(r) == r # NoReply /\ r.upstream # NoUpstream

\* The call of the reply ended in the wrapper, by an exception.
EndedInWrapper(r) == r # NoReply /\ r.upstream = NoUpstream /\ r.outcome = "raised"

\* A step in which a call of one of ops is made.
CallOf(ops) == reply = NoReply /\ reply' # NoReply /\ reply'.op \in ops

\* What a call of one of ops does about the client the ops need: a held
\* client is kept; without one, either a client is constructed, or the
\* construction fails, the body does not run and there is still no client.
LazyInit(ops, client, clientAfter) ==
    /\ client # NoClient => clientAfter = client
    /\ clientAfter # client => CallOf(ops) /\ Cardinality(clientAfter) = 1
    /\ (CallOf(ops) /\ client = NoClient) =>
          \/ clientAfter # NoClient
          \/ clientAfter = NoClient /\ EndedInWrapper(reply')

\* C25: each external client is constructed on the first call that needs
\* it and at most once while construction succeeds, later calls using the
\* same instance; the body of a decorated function never runs without its
\* client, and when construction fails the body does not run, the client
\* stays uninitialised and the next call attempts construction again.
C25_LazyClients ==
    /\ [](BodyRan(reply) =>
             /\ reply.op \in JiraOps => jira_client # NoClient
             /\ reply.op \in TempoOps => tempo_client # NoClient)
    /\ [][/\ LazyInit(JiraOps, jira_client, jira_client')
          /\ LazyInit(TempoOps, tempo_client, tempo_client')]_vars

\* A worklog registration that constructed the tracker client and failed to
\* construct the Tempo client: the body did not run.
C25_Witness ==
    /\ reply.op = "register_worklog_tempo"
    /\ EndedInWrapper(reply)
    /\ reply.value = TempoInitError
    /\ jira_client = {1}
    /\ tempo_client = NoClient

\* The issue key is that of a row of the issues table.
Tracked(tbl, issue_key) == \E i \in tbl : i.key = issue_key

UpdateStatusStep == dbCall'.op = "update_issue_status" /\ now' = now

\* C26: every transition row and every comment row with a non-null
\* issue_key refers to a key of the issues table; update_issue_status and
\* store_comment for an untracked key fail, record no transition and no
\* comment, and create no issue row.
C26_ReferentialIntegrity ==
    /\ [](/\ \A c \in comments : c.issue_key # NULL => Tracked(issues, c.issue_key)
          /\ \A t \in Range(transitions) :
                t.issue_key # NULL => Tracked(issues, t.issue_key))
    /\ [][/\ (UpdateStatusStep /\ ~Tracked(issues, dbCall'.key))
                => /\ dbCall'.outcome # "ok"
                   /\ UNCHANGED <<issues, transitions, comments>>
          /\ (StoreCommentStep /\ ~Tracked(issues, dbCall'.issue_key))
                => /\ dbCall'.outcome # "ok"
                   /\ UNCHANGED <<issues, transitions, comments>>]_vars

\* A comment on the untracked X-2 was refused for its foreign key, beside a
\* stored comment on the tracked X-1.
C26_Witness ==
    /\ dbCall.op = "store_comment"
    /\ dbCall.issue_key = "X-2"
    /\ dbCall.outcome = CommentForeignKey
    /\ ~Tracked(issues, "X-2")
    /\ Tracked(issues, "X-1")
    /\ \E c \in comments : c.issue_key = "X-1"

====
